---- MODULE Spec2Model ----
(***************************************************************************)
(* Cross-page year-range synchronisation of the vizro-filter example:      *)
(* the dataset loader (components/data.py), the parameter factory and its  *)
(* two Dash callbacks (components/parameters.py) and the three chart       *)
(* functions (components/charts.py).                                       *)
(*                                                                         *)
(* A year range is the tuple <<lo, hi>>; Python's None is the empty tuple. *)
(* A data frame is a sequence of rows.                                     *)
(***************************************************************************)
EXTENDS Integers, Sequences, FiniteSets, TLC

(***************************************************************************)
(* dataset      the gapminder table px.data.gapminder() returns            *)
(* fetches      how many times px.data.gapminder() has run                 *)
(* pc           per page, where its create_date_range_parameters call is   *)
(* df           per page, the frame load() returned to that call           *)
(* value        per page, the value of its "<prefix>year_range-selector"   *)
(* store        the data of "year_range_store"                             *)
(* queue        the callbacks Dash has requested and not yet run, in order *)
(* dispatching  whether the callbacks of the current event are being run   *)
(* last         the step taken last: which callback ran, for which page,   *)
(*              what triggered it and whether it returned dash.no_update   *)
(* userLast     the value of the most recent user change                   *)
(* seeds        how many times the store has been seeded                   *)
(* figure       the last chart call: its year argument, the frame after    *)
(*              the year filter and what was derived from it               *)
(*                                                                         *)
(* Events are run to completion: user changes made before dispatch starts  *)
(* form one batch, their callbacks run in order, and every callback an     *)
(* Output triggers is queued behind them. A callback reads its Input and   *)
(* State when it runs.                                                     *)
(***************************************************************************)
VARIABLES dataset, fetches, pc, df, value, store, queue, dispatching,
          last, userLast, seeds, figure

vars == <<dataset, fetches, pc, df, value, store, queue, dispatching,
          last, userLast, seeds, figure>>

(* ------------------------------ bounds --------------------------------- *)
NumPages == 2
NumYears == 2
MaxRows == 2
MaxBatch == 2

(* --------------------------- program constants ------------------------- *)
Step == 5

Pages == 1 .. NumPages
Years == {Step * k : k \in 1 .. NumYears}

\* No run of the callbacks holds more pending callbacks than this.
MaxQueue == (MaxBatch + NumPages + 1) * NumPages

None == <<>>

countries == {"United States", "China", "India", "Germany", "Brazil"}

\* The table's rows: a country lies in one continent and has its population.
ContinentOf(c) == IF c = "China" THEN "Asia" ELSE "Americas"
PopOf(c) == IF c = "China" THEN 2 ELSE 1

RowDomain ==
    {[year |-> y, country |-> c, continent |-> ContinentOf(c), pop |-> PopOf(c)] :
        y \in Years, c \in {"China", "Chile"}}

RECURSIVE SeqsUpTo(_, _)
SeqsUpTo(S, n) ==
    IF n = 0 THEN {<<>>}
    ELSE LET shorter == SeqsUpTo(S, n - 1)
         IN  shorter \cup {Append(s, x) : s \in {t \in shorter : Len(t) = n - 1}, x \in S}

Datasets == SeqsUpTo(RowDomain, MaxRows) \ {<<>>}

(* ------------------------------ data.py -------------------------------- *)
\* load_gapminder_data(): every call runs px.data.gapminder() and returns its frame.
load_gapminder_data_cached(source, count) ==
    [frame |-> source, fetches |-> IF count = 0 THEN 1 ELSE count]

load_gapminder_data(source, count) ==
    [frame |-> source, fetches |-> count + 1]

(* --------------------------- parameters.py ----------------------------- *)
\* df["year"].min() / df["year"].max(): a fold over the column.
RECURSIVE year_min(_)
year_min(frame) ==
    IF Len(frame) = 1 THEN frame[1].year
    ELSE LET m == year_min(Tail(frame))
         IN  IF frame[1].year < m THEN frame[1].year ELSE m

RECURSIVE year_max(_)
year_max(frame) ==
    IF Len(frame) = 1 THEN frame[1].year
    ELSE LET m == year_max(Tail(frame))
         IN  IF frame[1].year > m THEN frame[1].year ELSE m

\* value=[min_year, max_year] of the RangeSlider built by create_date_range_parameters.
slider_value_first_row(frame) == <<frame[1].year, frame[Len(frame)].year>>

slider_value(frame) == <<year_min(frame), year_max(frame)>>

\* sync_to_store(selected_range, stored_data)
sync_to_store_keep(selected_range, stored_data) ==
    IF stored_data # None THEN stored_data ELSE selected_range

sync_to_store_swap(selected_range, stored_data) ==
    IF Len(selected_range) = 2 /\ selected_range[1] < selected_range[2]
    THEN <<selected_range[2], selected_range[1]>>
    ELSE selected_range

sync_to_store(selected_range, stored_data) == selected_range

\* sync_from_store(stored_range, current_value); dash.no_update is no_update |-> TRUE.
sync_from_store_always(stored_range, current_value) ==
    [no_update |-> FALSE, value |-> stored_range]

sync_from_store_inverted(stored_range, current_value) ==
    IF stored_range = current_value
    THEN [no_update |-> FALSE, value |-> stored_range]
    ELSE [no_update |-> TRUE, value |-> None]

sync_from_store_first(stored_range, current_value) ==
    IF Len(stored_range) # Len(current_value)
       \/ (Len(stored_range) = 2 /\ stored_range[1] # current_value[1])
    THEN [no_update |-> FALSE, value |-> stored_range]
    ELSE [no_update |-> TRUE, value |-> None]

sync_from_store_lo(stored_range, current_value) ==
    IF stored_range # current_value
    THEN [no_update |-> FALSE,
          value |-> IF Len(stored_range) = 2
                    THEN <<stored_range[1], stored_range[1]>> ELSE stored_range]
    ELSE [no_update |-> TRUE, value |-> None]

sync_from_store(stored_range, current_value) ==
    IF stored_range # current_value
    THEN [no_update |-> FALSE, value |-> stored_range]
    ELSE [no_update |-> TRUE, value |-> None]

\* An entry of the pending-callback queue: which callback, of which prefix,
\* and what triggered it: "user" (a slider move), "seed", "callback" (the
\* Output of a callback a user change started) or "echo" (the Output of a
\* sync_to_store that a sync_from_store's Output triggered).
ToStore(w, by) == [cb |-> "sync_to_store", w |-> w, by |-> by]
FromStore(w, by) == [cb |-> "sync_from_store", w |-> w, by |-> by]

\* Every sync_from_store has Input("year_range_store", "data").
RECURSIVE AllFromStore(_, _)
AllFromStore(w, by) ==
    IF w > NumPages THEN <<>> ELSE <<FromStore(w, by)>> \o AllFromStore(w + 1, by)

NoEvent == [kind |-> "none", w |-> 0, by |-> "none", no_update |-> FALSE]

(* ------------------------- dashboard build ----------------------------- *)
BuildInit ==
    /\ dataset \in Datasets
    /\ fetches = 0
    /\ pc = [p \in Pages |-> "idle"]
    /\ df = [p \in Pages |-> None]
    /\ value = [p \in Pages |-> None]
    /\ store = None
    /\ queue = <<>>
    /\ dispatching = FALSE
    /\ last = NoEvent
    /\ userLast = None
    /\ seeds = 0
    /\ figure = [chart |-> "none", year |-> None, frame |-> <<>>, rows |-> <<>>,
                 latest_year |-> None, sums |-> <<>>]

\* create_date_range_parameters: data_manager[data_frame].load() is entered.
LoadBegin(p) ==
    /\ pc[p] = "idle"
    /\ LET r == load_gapminder_data(dataset, fetches)
       IN  /\ fetches' = r.fetches
           /\ df' = [df EXCEPT ![p] = r.frame]
    /\ pc' = [pc EXCEPT ![p] = "loading"]
    /\ last' = [kind |-> "load", w |-> p, by |-> "build", no_update |-> FALSE]
    /\ UNCHANGED <<dataset, value, store, queue, dispatching, userLast, seeds, figure>>

\* create_date_range_parameters: load() has returned; the Parameter is built.
LoadEnd(p) ==
    /\ pc[p] = "loading"
    /\ value' = [value EXCEPT ![p] = slider_value(df[p])]
    /\ pc' = [pc EXCEPT ![p] = "built"]
    /\ last' = [kind |-> "create", w |-> p, by |-> "build", no_update |-> FALSE]
    /\ UNCHANGED <<dataset, fetches, df, store, queue, dispatching, userLast, seeds, figure>>

AllBuilt == \A p \in Pages : pc[p] = "built"

\* First activation: the store has no value and is seeded with the dataset's bounds.
Seed ==
    /\ AllBuilt
    /\ store = None
    /\ queue = <<>>
    /\ store' = <<year_min(dataset), year_max(dataset)>>
    /\ queue' = AllFromStore(1, "seed")
    /\ dispatching' = TRUE
    /\ seeds' = seeds + 1
    /\ last' = [kind |-> "seed", w |-> 0, by |-> "build", no_update |-> FALSE]
    /\ UNCHANGED <<dataset, fetches, pc, df, value, userLast, figure>>

(* ---------------------------- sync engine ------------------------------ *)
\* The slider positions a user can select: min <= lo <= hi <= max on the step grid.
SliderRanges(lo, hi) ==
    {r \in Years \X Years : lo <= r[1] /\ r[1] <= r[2] /\ r[2] <= hi}

\* Values no slider position gives, as a forged or stale client request carries.
OutOfRange(lo, hi) == {<<lo - Step, hi>>, <<lo, hi + Step>>, <<hi + Step, lo>>}

InRange(r, lo, hi) == Len(r) = 2 /\ lo <= r[1] /\ r[1] <= r[2] /\ r[2] <= hi

min_year == year_min(dataset)
max_year == year_max(dataset)

\* The user moves the slider of page w (Input of sync_to_store fires).
UserChange(w, v) ==
    /\ AllBuilt
    /\ ~dispatching
    /\ Len(queue) < MaxBatch
    /\ v # value[w]
    /\ value' = [value EXCEPT ![w] = v]
    /\ queue' = Append(queue, ToStore(w, "user"))
    /\ userLast' = v
    /\ last' = [kind |-> "user", w |-> w, by |-> "user", no_update |-> FALSE]
    /\ UNCHANGED <<dataset, fetches, pc, df, store, dispatching, seeds, figure>>

\* The head of the queue is sync_to_store of page w: it runs and its Output
\* (year_range_store.data) triggers every sync_from_store.
DispatchToStore(w) ==
    /\ queue # <<>>
    /\ Head(queue).cb = "sync_to_store"
    /\ Head(queue).w = w
    /\ Len(queue) - 1 + NumPages <= MaxQueue
    /\ store' = sync_to_store(value[w], store)
    /\ queue' = Tail(queue) \o
                AllFromStore(1, IF Head(queue).by = "user" THEN "callback" ELSE "echo")
    /\ dispatching' = TRUE
    /\ last' = [kind |-> "sync_to_store", w |-> w, by |-> Head(queue).by,
                no_update |-> FALSE]
    /\ UNCHANGED <<dataset, fetches, pc, df, value, userLast, seeds, figure>>

\* The head of the queue is sync_from_store of page w: it runs; unless it
\* returns no_update its Output (the selector's value) triggers sync_to_store.
DispatchFromStore(w) ==
    /\ queue # <<>>
    /\ Head(queue).cb = "sync_from_store"
    /\ Head(queue).w = w
    /\ LET r == sync_from_store(store, value[w])
       IN  /\ value' = IF r.no_update THEN value ELSE [value EXCEPT ![w] = r.value]
           /\ queue' = IF r.no_update THEN Tail(queue)
                       ELSE Append(Tail(queue), ToStore(w, "callback"))
           /\ last' = [kind |-> "sync_from_store", w |-> w, by |-> Head(queue).by,
                       no_update |-> r.no_update]
    /\ dispatching' = (queue' # <<>>)
    /\ UNCHANGED <<dataset, fetches, pc, df, store, userLast, seeds, figure>>

BuildNext ==
    \/ \E p \in Pages : LoadBegin(p)
    \/ \E p \in Pages : LoadEnd(p)
    \/ Seed
    \/ \E w \in Pages : DispatchFromStore(w)

BuildSpec == BuildInit /\ [][BuildNext]_vars

(* ------------------------ running dashboard ---------------------------- *)
\* One row per year of the grid, as the gapminder table has for each country.
RECURSIVE YearTable(_)
YearTable(k) ==
    IF k = 0 THEN <<>>
    ELSE Append(YearTable(k - 1),
                [year |-> Step * k, country |-> "China",
                 continent |-> ContinentOf("China"), pop |-> PopOf("China")])

\* The dashboard is built: every page holds its Parameter with value [min_year, max_year];
\* the store is either still empty or already seeded.
SyncInit ==
    /\ dataset = YearTable(NumYears)
    /\ fetches = NumPages
    /\ pc = [p \in Pages |-> "built"]
    /\ df = [p \in Pages |-> dataset]
    /\ value = [p \in Pages |-> slider_value(dataset)]
    /\ store \in {None, slider_value(dataset)}
    /\ queue = <<>>
    /\ dispatching = FALSE
    /\ last = NoEvent
    /\ userLast = None
    /\ seeds = IF store = None THEN 0 ELSE 1
    /\ figure = [chart |-> "none", year |-> None, frame |-> <<>>, rows |-> <<>>,
                 latest_year |-> None, sums |-> <<>>]

Inputs == SliderRanges(min_year, max_year) \cup OutOfRange(min_year, max_year)

SyncNext ==
    \/ \E w \in Pages : \E v \in Inputs : UserChange(w, v)
    \/ \E w \in Pages : DispatchToStore(w)
    \/ \E w \in Pages : DispatchFromStore(w)

SyncSpec == SyncInit /\ [][SyncNext]_vars

\* Dash runs every pending callback: a callback that is requested is executed.
FairSyncSpec ==
    /\ SyncSpec
    /\ WF_vars(\E w \in Pages : DispatchToStore(w))
    /\ WF_vars(\E w \in Pages : DispatchFromStore(w))

(* ------------------------------ charts.py ------------------------------ *)
\* if year is not None: data_frame = data_frame[(year >= min_year) & (year <= max_year)]
RECURSIVE filter_year_strict(_, _)
filter_year_strict(data_frame, year) ==
    IF year = None \/ data_frame = <<>> THEN data_frame
    ELSE LET rest == filter_year_strict(Tail(data_frame), year)
         IN  IF data_frame[1].year > year[1] /\ data_frame[1].year < year[2]
             THEN <<data_frame[1]>> \o rest ELSE rest

RECURSIVE filter_year(_, _)
filter_year(data_frame, year) ==
    IF year = None \/ data_frame = <<>> THEN data_frame
    ELSE LET rest == filter_year(Tail(data_frame), year)
         IN  IF data_frame[1].year >= year[1] /\ data_frame[1].year <= year[2]
             THEN <<data_frame[1]>> \o rest ELSE rest

\* data_frame[data_frame["country"].isin(countries)]
RECURSIVE isin_countries(_)
isin_countries(data_frame) ==
    IF data_frame = <<>> THEN <<>>
    ELSE IF data_frame[1].country \in countries
         THEN <<data_frame[1]>> \o isin_countries(Tail(data_frame))
         ELSE isin_countries(Tail(data_frame))

\* data_frame["year"].max(): NaN (None here) on an empty frame.
latest_year_of(data_frame) ==
    IF data_frame = <<>> THEN None ELSE <<year_max(data_frame)>>

\* data_frame[data_frame["year"] == latest_year]
RECURSIVE year_equals(_, _)
year_equals(data_frame, latest_year) ==
    IF data_frame = <<>> \/ latest_year = None THEN <<>>
    ELSE IF data_frame[1].year = latest_year[1]
         THEN <<data_frame[1]>> \o year_equals(Tail(data_frame), latest_year)
         ELSE year_equals(Tail(data_frame), latest_year)

\* df_latest.groupby("continent")["pop"].sum(): one sum per continent present.
RECURSIVE pop_sum(_, _)
pop_sum(data_frame, continent) ==
    IF data_frame = <<>> THEN 0
    ELSE (IF data_frame[1].continent = continent THEN data_frame[1].pop ELSE 0)
         + pop_sum(Tail(data_frame), continent)

groupby_continent_sum(data_frame) ==
    [c \in {data_frame[i].continent : i \in 1 .. Len(data_frame)} |->
        pop_sum(data_frame, c)]

gapminder_line_chart(data_frame, year) ==
    LET filtered == filter_year(data_frame, year)
    IN  [chart |-> "line", year |-> year, frame |-> filtered,
         rows |-> isin_countries(filtered), latest_year |-> None, sums |-> <<>>]

gapminder_scatter_chart(data_frame, year) ==
    LET filtered == filter_year(data_frame, year)
        latest_year == latest_year_of(filtered)
    IN  [chart |-> "scatter", year |-> year, frame |-> filtered,
         rows |-> year_equals(filtered, latest_year),
         latest_year |-> latest_year, sums |-> <<>>]

gapminder_bar_chart(data_frame, year) ==
    LET filtered == filter_year(data_frame, year)
        latest_year == latest_year_of(filtered)
        df_latest == year_equals(filtered, latest_year)
    IN  [chart |-> "bar", year |-> year, frame |-> filtered,
         rows |-> df_latest, latest_year |-> latest_year,
         sums |-> groupby_continent_sum(df_latest)]

\* The year argument a chart is called with: None, a slider range, or any
\* other pair of years around the grid.
YearArgs ==
    LET ys == Years \cup {Step * 0, Step * (NumYears + 1)}
    IN  {None} \cup (ys \X ys)

ChartInit ==
    /\ dataset \in Datasets
    /\ fetches = 1
    /\ pc = [p \in Pages |-> "built"]
    /\ df = [p \in Pages |-> dataset]
    /\ value = [p \in Pages |-> slider_value(dataset)]
    /\ store = None
    /\ queue = <<>>
    /\ dispatching = FALSE
    /\ last = NoEvent
    /\ userLast = None
    /\ seeds = 0
    /\ figure = [chart |-> "none", year |-> None, frame |-> <<>>, rows |-> <<>>,
                 latest_year |-> None, sums |-> <<>>]

RenderLine(year) ==
    /\ figure' = gapminder_line_chart(dataset, year)
    /\ last' = [kind |-> "render", w |-> 0, by |-> "line", no_update |-> FALSE]
    /\ UNCHANGED <<dataset, fetches, pc, df, value, store, queue, dispatching,
                   userLast, seeds>>

RenderScatter(year) ==
    /\ figure' = gapminder_scatter_chart(dataset, year)
    /\ last' = [kind |-> "render", w |-> 0, by |-> "scatter", no_update |-> FALSE]
    /\ UNCHANGED <<dataset, fetches, pc, df, value, store, queue, dispatching,
                   userLast, seeds>>

RenderBar(year) ==
    /\ figure' = gapminder_bar_chart(dataset, year)
    /\ last' = [kind |-> "render", w |-> 0, by |-> "bar", no_update |-> FALSE]
    /\ UNCHANGED <<dataset, fetches, pc, df, value, store, queue, dispatching,
                   userLast, seeds>>

ChartNext ==
    \/ \E year \in YearArgs : RenderLine(year)
    \/ \E year \in YearArgs : RenderScatter(year)
    \/ \E year \in YearArgs : RenderBar(year)

ChartSpec == ChartInit /\ [][ChartNext]_vars

(* ======================= properties: sync engine ======================= *)
AllEqualStore == \A w \in Pages : value[w] = store

OnlyFromStore(q) == \A i \in 1 .. Len(q) : q[i].cb = "sync_from_store"

AllInRange ==
    /\ store # None => InRange(store, min_year, max_year)
    /\ \A w \in Pages : InRange(value[w], min_year, max_year)

\* C1 - Convergence: once the callbacks an event triggered have all run (no
\* callback pending), every widget's value equals the value in year_range_store.
Convergence ==
    (queue = <<>> /\ last.kind # "none") => AllEqualStore

ConvergenceWitness ==
    /\ queue = <<>>
    /\ last.kind = "sync_from_store"
    /\ userLast # None
    /\ store # slider_value(dataset)
    /\ AllEqualStore

\* C2 (as claimed) - when sync_from_store applies a store value to a widget,
\* no sync_to_store of that widget is triggered by it.
NoRetrigger ==
    [][(last'.kind = "sync_from_store" /\ ~last'.no_update)
        => \A i \in 1 .. Len(queue') : queue'[i] # ToStore(last'.w, "callback")]_vars

\* C2 (amended) - an application by sync_from_store triggers sync_to_store of
\* that widget exactly once; that run writes the value the store already
\* holds, so the store's content does not change, and every sync_from_store
\* it triggers returns no_update.
RetriggerWritesSameValue ==
    [][/\ (last'.kind = "sync_from_store" /\ ~last'.no_update)
            => queue' = Append(Tail(queue), ToStore(last'.w, "callback"))
       /\ (last'.kind = "sync_from_store" /\ last'.no_update)
            => queue' = Tail(queue)
       /\ (last'.kind = "sync_to_store" /\ last'.by = "callback")
            => store' = store
       /\ (last'.kind = "sync_from_store" /\ last'.by = "echo")
            => last'.no_update]_vars

RetriggerWitness ==
    /\ last.kind = "sync_to_store"
    /\ last.by = "callback"
    /\ store # slider_value(dataset)

\* C3 - Idempotence of a redundant write: when the store has been written with
\* the value every widget already holds, each sync_from_store it triggered
\* returns no_update, no widget changes and no store write follows.
RedundantWriteSilent ==
    [][(AllEqualStore /\ queue # <<>> /\ OnlyFromStore(queue))
        => /\ last'.kind = "sync_from_store"
           /\ last'.no_update
           /\ value' = value
           /\ store' = store
           /\ queue' = Tail(queue)]_vars

RedundantWriteWitness ==
    /\ last.kind = "sync_from_store"
    /\ last.by = "echo"
    /\ last.no_update
    /\ AllEqualStore
    /\ store # None
    /\ queue = <<>>

\* C4 - Last write wins: a run of sync_to_store leaves the store equal to that
\* widget's selected range whatever the store held, and when all callbacks of
\* a dispatch cycle have run the store holds the value of the last user change.
LastWriteWins ==
    /\ [][last'.kind = "sync_to_store" => store' = value[last'.w]]_vars
    /\ []((queue = <<>> /\ userLast # None) => store = userLast)

LastWriteWitness ==
    /\ queue = <<>>
    /\ userLast # None
    /\ store = userLast
    /\ store # slider_value(dataset)
    /\ last.kind = "sync_from_store"

\* C5 (as claimed) - out-of-range values are clamped or rejected: once the
\* callbacks have run, the store, when set, and every widget's value are a
\* range (lo, hi) with min_year <= lo <= hi <= max_year.
NeverOutOfRange == queue = <<>> => AllInRange

\* C5 (amended) - the callbacks never introduce an out-of-range value: if the
\* store (when set) and every widget hold in-range values, they still do after
\* any run of sync_to_store or sync_from_store.
CallbacksPreserveRange ==
    [][(last'.kind \in {"sync_to_store", "sync_from_store"} /\ AllInRange)
        => AllInRange']_vars

PreserveRangeWitness ==
    /\ AllInRange
    /\ last.kind = "sync_from_store"
    /\ ~last.no_update
    /\ store # slider_value(dataset)

\* C9 - Selective application: sync_from_store of a widget whose value differs
\* from the store sets it to the store's value, of a widget whose value equals
\* it returns no_update and leaves it; it changes no other widget and never
\* the store; sync_to_store changes no widget's value.
SelectiveApplication ==
    [][/\ last'.kind = "sync_from_store" =>
            /\ store' = store
            /\ \A u \in Pages \ {last'.w} : value'[u] = value[u]
            /\ IF value[last'.w] # store
               THEN value'[last'.w] = store /\ ~last'.no_update
               ELSE value'[last'.w] = value[last'.w] /\ last'.no_update
       /\ last'.kind = "sync_to_store" => value' = value]_vars

SelectiveWitness ==
    /\ last.kind = "sync_from_store"
    /\ ~last.no_update
    /\ value[last.w] = store
    /\ store # slider_value(dataset)

\* C10 - No oscillation: whenever callbacks are pending, the pending callback
\* at the head can run, and after finitely many runs none is pending.
NoOscillation ==
    /\ [](queue # <<>> =>
            (Head(queue).cb = "sync_to_store" => Len(queue) - 1 + NumPages <= MaxQueue))
    /\ (queue # <<>>) ~> (queue = <<>>)

NoOscillationWitness ==
    /\ queue = <<>>
    /\ ~dispatching
    /\ last.kind = "sync_from_store"
    /\ last.by = "echo"
    /\ userLast # None

(* ========================== properties: build ========================== *)
YearsOf(frame) == {frame[i].year : i \in 1 .. Len(frame)}

Lowest(S) == CHOOSE y \in S : \A z \in S : y <= z
Highest(S) == CHOOSE y \in S : \A z \in S : y >= z

FetchOnce == fetches <= 1

\* C7 (amended) - the loader keeps no cache: the fetch has occurred once per
\* load() call begun, and every call returns the same dataset.
FetchPerLoad ==
    /\ fetches = Cardinality({p \in Pages : pc[p] # "idle"})
    /\ \A p \in Pages : pc[p] # "idle" => df[p] = dataset

FetchPerLoadWitness ==
    /\ \A p \in Pages : pc[p] = "loading"
    /\ fetches = NumPages
    /\ fetches > 1

(* ========================= properties: charts ========================== *)
\* The positions of the dataset's rows a year argument selects.
Selected(year) ==
    {i \in 1 .. Len(dataset) :
        year = None \/ (year[1] <= dataset[i].year /\ dataset[i].year <= year[2])}

\* The rows at the positions S, in the dataset's order.
RECURSIVE RowsAt(_, _)
RowsAt(S, i) ==
    IF i > Len(dataset) THEN <<>>
    ELSE (IF i \in S THEN <<dataset[i]>> ELSE <<>>) \o RowsAt(S, i + 1)

RECURSIVE PopOver(_)
PopOver(S) ==
    IF S = {} THEN 0
    ELSE LET i == CHOOSE j \in S : TRUE IN dataset[i].pop + PopOver(S \ {i})

\* C8 - Filter correctness: each chart computes every derived step on exactly
\* the rows with min <= year <= max (all rows when year is None): the line
\* chart's country selection, the scatter and bar charts' latest year and
\* latest-year subset, the bar chart's continent sums; the dataset is not changed.
FilterCorrectness ==
    /\ [](figure.chart # "none" =>
            LET S == Selected(figure.year)
                top == IF S = {} THEN None
                       ELSE <<Highest({dataset[i].year : i \in S})>>
                L == {i \in S : top # None /\ dataset[i].year = top[1]}
            IN  /\ figure.frame = RowsAt(S, 1)
                /\ figure.chart = "line" =>
                       figure.rows = RowsAt({i \in S : dataset[i].country \in countries}, 1)
                /\ figure.chart \in {"scatter", "bar"} =>
                       /\ figure.latest_year = top
                       /\ figure.rows = RowsAt(L, 1)
                /\ figure.chart = "bar" =>
                       /\ DOMAIN figure.sums = {dataset[i].continent : i \in L}
                       /\ \A c \in DOMAIN figure.sums :
                              figure.sums[c] = PopOver({i \in L : dataset[i].continent = c}))
    /\ [][dataset' = dataset]_vars

FilterWitness ==
    /\ figure.chart = "bar"
    /\ figure.year # None
    /\ Len(figure.frame) > 0
    /\ Len(figure.frame) < Len(dataset)
    /\ \E i \in 1 .. Len(figure.frame) : figure.frame[i].year = figure.year[1]
    /\ DOMAIN figure.sums # {}

====
